---- MODULE Spec2Model ----
(***************************************************************************)
(* Model of distro-info (src/src/lib.rs): the DistroRelease record with    *)
(* its point-in-time predicates, the DistroInfo table with its date        *)
(* queries, and the CSV loader from_csv_reader.                            *)
(*                                                                         *)
(* Option<T> is modelled as a sequence of length at most one: None is <<>> *)
(* and Some(x) is <<x>>.  A NaiveDate is modelled as an integer whose      *)
(* order is the chronological order.  A &DistroRelease handed out by a     *)
(* query is modelled as the index of the record in the table's vector, so  *)
(* that a query result keeps the identity and the order of the records.    *)
(* A String is a sequence of one-character strings.                        *)
(***************************************************************************)
EXTENDS Integers, Sequences, FiniteSets, TLC

\* ---- bounds of the model ------------------------------------------------
\* longest table the queries are asked about
MaxLen == 2
\* the dates of records and queries range over 1..MaxDay
MaxDay == 2
\* most rows the csv reader yields
MaxRows == 2
\* most iterators alive over one table
MaxIters == 2

\* the columns from_csv_reader reads: record.get(0) .. record.get(6)
Columns == 7

None == <<>>
Some(x) == <<x>>

Days == 1..MaxDay
OptDays == {None} \cup {Some(d) : d \in Days}

VARIABLES
    pc,        \* "loading" | "loaded" | "failed" | "record": where the caller is
    releases,  \* the local vector `releases` of from_csv_reader
    info,      \* Option<Self>: the table once it is constructed
    err,       \* Option<Error>: the error from_csv_reader returned
    lastRow,   \* Option<StringRecord>: the row the loop handled last
    nread,     \* number of items the loop has taken from the reader
    rec,       \* Option<DistroRelease>: a record held outside any table
    op,        \* name of the last predicate or query that ran
    date,      \* its date argument
    resBool,   \* its result, when a bool
    resVec,    \* its result, when a Vec<&DistroRelease>
    resOpt,    \* its result, when an Option<&DistroRelease>
    iters,     \* the slice iterators iter() handed out, each an Option
    yielded    \* per iterator, what its next() has returned so far

vars == <<pc, releases, info, err, lastRow, nread,
          rec, op, date, resBool, resVec, resOpt, iters, yielded>>
iterVars == <<iters, yielded>>
loadVars == <<pc, releases, info, err, lastRow, nread>>
queryVars == <<op, date, resBool, resVec, resOpt>>

\* ---- DistroRelease ------------------------------------------------------
DistroRelease_new(version, codename, series, created, release, eol, eol_server) ==
    [version |-> version, codename |-> codename, series |-> series,
     created |-> created, release |-> release, eol |-> eol,
     eol_server |-> eol_server]

Min(a, b) == IF a <= b THEN a ELSE b

max(a, b) == IF b >= a THEN b ELSE a

created_at(self, d) ==
    IF self.created # None THEN d >= self.created[1] ELSE FALSE

\* released_at with the release expiring once its eol has passed
released_at_until_eol(self, d) ==
    IF self.release # None
    THEN d >= self.release[1] /\ (self.eol # None => d <= self.eol[1])
    ELSE FALSE

released_at(self, d) ==
    IF self.release # None THEN d >= self.release[1] ELSE FALSE

\* supported_at with the EOL day itself no longer supported
supported_at_exclusive(self, d) ==
    created_at(self, d)
    /\ IF self.eol # None
       THEN IF self.eol_server # None
            THEN d < max(self.eol[1], self.eol_server[1])
            ELSE d < self.eol[1]
       ELSE FALSE

\* supported_at with the earlier of the two EOL dates governing
supported_at_min(self, d) ==
    created_at(self, d)
    /\ IF self.eol # None
       THEN IF self.eol_server # None
            THEN d <= Min(self.eol[1], self.eol_server[1])
            ELSE d <= self.eol[1]
       ELSE FALSE

supported_at(self, d) ==
    created_at(self, d)
    /\ IF self.eol # None
       THEN IF self.eol_server # None
            THEN d <= max(self.eol[1], self.eol_server[1])
            ELSE d <= self.eol[1]
       ELSE FALSE

\* ---- DistroInfo ---------------------------------------------------------
from_vec(rels) == [releases |-> rels]

\* self.releases().iter(): the references to the records, in vector order
iter(self) == [i \in 1..Len(self.releases) |-> i]

all_at(self, d) ==
    SelectSeq(iter(self),
              LAMBDA i : IF self.releases[i].created # None
                         THEN d >= self.releases[i].created[1]
                         ELSE FALSE)

released(self, d) ==
    SelectSeq(iter(self), LAMBDA i : released_at(self.releases[i], d))

supported(self, d) ==
    SelectSeq(iter(self), LAMBDA i : supported_at(self.releases[i], d))

\* unsupported filtering the created records instead of the released ones
unsupported_of_created(self, d) ==
    SelectSeq(all_at(self, d), LAMBDA i : ~supported_at(self.releases[i], d))

unsupported(self, d) ==
    SelectSeq(released(self, d), LAMBDA i : ~supported_at(self.releases[i], d))

\* devel taking a record without a release date as not yet released
devel_missing_release(self, d) ==
    SelectSeq(all_at(self, d),
              LAMBDA i : IF self.releases[i].release # None
                         THEN d < self.releases[i].release[1]
                         ELSE TRUE)

devel(self, d) ==
    SelectSeq(all_at(self, d),
              LAMBDA i : IF self.releases[i].release # None
                         THEN d < self.releases[i].release[1]
                         ELSE FALSE)

\* latest taking the first qualifying record instead of the last
latest_first(self, d) ==
    LET v == SelectSeq(supported(self, d),
                       LAMBDA i : released_at(self.releases[i], d))
    IN  IF Len(v) = 0 THEN None ELSE Some(v[1])

latest(self, d) ==
    LET v == SelectSeq(supported(self, d),
                       LAMBDA i : released_at(self.releases[i], d))
    IN  IF Len(v) = 0 THEN None ELSE Some(v[Len(v)])

\* ---- from_csv_reader ----------------------------------------------------
Ok(v) == [ok |-> TRUE, val |-> v, err |-> ""]
Err(e) == [ok |-> FALSE, val |-> None, err |-> e]

RequiredError == "failed to read required option"
\* chrono's ParseError kinds, by their Display text
TooShort == "premature end of input"
Invalid == "input contains invalid characters"
TooLong == "trailing input"
OutOfRange == "input is out of range"
\* csv::Error the reader itself can yield
ReaderError == "CSV error"

\* StringRecord::get(i), i counted from 0
get(record, i) == IF i + 1 <= Len(record) THEN Some(record[i + 1]) ELSE None

\* parse_required_str refusing an empty field as well as a missing one
parse_required_str_nonempty(field) ==
    IF field = None \/ field = Some(<<>>) THEN Err(RequiredError) ELSE Ok(field[1])

parse_required_str(field) ==
    IF field = None THEN Err(RequiredError) ELSE Ok(field[1])

DigitChars == {"0", "1", "2", "3", "4", "5", "6", "7", "8", "9"}

DigitVal(c) ==
    CASE c = "0" -> 0 [] c = "1" -> 1 [] c = "2" -> 2 [] c = "3" -> 3
      [] c = "4" -> 4 [] c = "5" -> 5 [] c = "6" -> 6 [] c = "7" -> 7
      [] c = "8" -> 8 [] c = "9" -> 9

\* number of digits at s[pos..], at most w of them
NumDigits(s, pos, w) ==
    Cardinality({k \in 1..w :
        \A j \in 1..k : pos + j - 1 <= Len(s) /\ s[pos + j - 1] \in DigitChars})

RECURSIVE DigitsVal(_, _, _)
DigitsVal(s, pos, n) ==
    IF n = 0 THEN 0
    ELSE 10 * DigitsVal(s, pos, n - 1) + DigitVal(s[pos + n - 1])

\* `let v = r?; F(v)`: an Err is returned as it is, an Ok hands its value
\* on.  The result r is computed once, as the code computes it.
Try(r, F(_)) ==
    CHOOSE out \in {IF v.ok THEN F(v.val) ELSE Err(v.err) : v \in {r}} : TRUE

\* a numeric item of the format: 1 to w digits
scan_number(s, pos, w) ==
    IF pos > Len(s) THEN Err(TooShort)
    ELSE IF s[pos] \notin DigitChars THEN Err(Invalid)
    ELSE Try(Ok(NumDigits(s, pos, w)),
             LAMBDA n : Ok([num |-> DigitsVal(s, pos, n), next |-> pos + n]))

\* a literal character of the format
scan_literal(s, pos, c) ==
    IF pos > Len(s) THEN Err(TooShort)
    ELSE IF s[pos] # c THEN Err(Invalid)
    ELSE Ok(pos + 1)

IsLeap(y) == (y % 4 = 0 /\ y % 100 # 0) \/ y % 400 = 0

DaysInMonth(y, m) ==
    IF m = 2 THEN (IF IsLeap(y) THEN 29 ELSE 28)
    ELSE IF m \in {4, 6, 9, 11} THEN 30 ELSE 31

\* the integer standing for the NaiveDate y-m-d; its order is the calendar's
from_ymd(y, m, d) == y * 10000 + m * 100 + d

\* NaiveDate::parse_from_str(field, "%Y-%m-%d"): year, '-', month, '-', day,
\* nothing behind them, and the three numbers a date of the calendar
parse_date(field) ==
    Try(scan_number(field, 1, 4), LAMBDA y :
    Try(scan_literal(field, y.next, "-"), LAMBDA p1 :
    Try(scan_number(field, p1, 2), LAMBDA m :
    Try(scan_literal(field, m.next, "-"), LAMBDA p2 :
    Try(scan_number(field, p2, 2), LAMBDA d :
        IF d.next <= Len(field) THEN Err(TooLong)
        ELSE IF m.num \in 1..12 /\ d.num \in 1..DaysInMonth(y.num, m.num)
        THEN Ok(from_ymd(y.num, m.num, d.num))
        ELSE Err(OutOfRange))))))

\* record.get(i).map(parse_date).transpose()
parse_optional_date(field) ==
    IF field = None THEN Ok(None)
    ELSE Try(parse_date(field[1]), LAMBDA date_ : Ok(Some(date_)))

\* the argument list of DistroRelease::new in the loop, evaluated left to
\* right, the first `?` that meets an Err returning it
read_record(record) ==
    Try(parse_required_str(get(record, 0)), LAMBDA version :
    Try(parse_required_str(get(record, 1)), LAMBDA codename :
    Try(parse_required_str(get(record, 2)), LAMBDA series :
    Try(parse_optional_date(get(record, 3)), LAMBDA created :
    Try(parse_optional_date(get(record, 4)), LAMBDA release :
    Try(parse_optional_date(get(record, 5)), LAMBDA eol :
    Try(parse_optional_date(get(record, 6)), LAMBDA eol_server :
        Ok(DistroRelease_new(version, codename, series, created, release,
                             eol, eol_server)))))))))

\* the loop passing over a row it cannot read instead of returning the error
loop_body_skip(rels, record) ==
    LET r == read_record(record)
    IN  IF r.ok
        THEN [pc |-> "loading", releases |-> Append(rels, r.val), err |-> None]
        ELSE [pc |-> "loading", releases |-> rels, err |-> None]

\* one turn of `for record in rdr.records()` on a row the reader yielded:
\* the vector grows by the record, or the function returns the error and
\* its local vector is dropped
loop_body(rels, record) ==
    LET r == read_record(record)
    IN  IF r.ok
        THEN [pc |-> "loading", releases |-> Append(rels, r.val), err |-> None]
        ELSE [pc |-> "failed", releases |-> <<>>, err |-> Some(r.err)]

\* ---- the rows of the source ---------------------------------------------
EmptyText == <<>>
NameText == <<"a">>
DateText == <<"2", "0", "1", "8", "-", "0", "6", "-", "1", "4">>
NoDateText == <<"2", "0", "1", "8", "-", "0", "2", "-", "3", "0">>

NameTexts == {EmptyText, NameText}
DateTexts == {EmptyText, DateText, NoDateText}

\* the fields behind the three names in a row of w fields: a date in each,
\* or a date in each but one, which is empty or holds no date
DateFields(w) ==
    {[k \in 4..w |-> DateText]}
    \cup {[k \in 4..w |-> IF k = j THEN t ELSE DateText] :
            j \in 4..w, t \in DateTexts \ {DateText}}

\* rows of w fields: any of the name texts in the name columns
RowsOfWidth(w) ==
    {[k \in 1..w |-> IF k <= 3 THEN names[k] ELSE dates[k]] :
        names \in [1..Min(w, 3) -> NameTexts], dates \in DateFields(w)}

\* rows of 1..Columns fields (the reader never yields a row of no field)
Rows == UNION {RowsOfWidth(w) : w \in 1..Columns}

NoAnswer ==
    /\ op = "none" /\ date = 1
    /\ resBool = FALSE /\ resVec = <<>> /\ resOpt = None

\* no iterator has been asked for
NoIters ==
    /\ iters = [k \in 1..MaxIters |-> None]
    /\ yielded = [k \in 1..MaxIters |-> [items |-> <<>>, ended |-> FALSE]]

\* from_csv_reader is entered: `let mut releases = vec![]`
InitLoad ==
    /\ pc = "loading"
    /\ releases = <<>> /\ info = None /\ err = None
    /\ lastRow = None /\ nread = 0
    /\ rec = None
    /\ NoAnswer
    /\ NoIters

\* the reader yields a row
LoadRow ==
    /\ pc = "loading"
    /\ nread < MaxRows
    /\ \E row \in Rows :
         \E s \in {loop_body(releases, row)} :
             /\ pc' = s.pc
             /\ releases' = s.releases
             /\ err' = s.err
             /\ lastRow' = Some(row)
    /\ nread' = nread + 1
    /\ UNCHANGED <<info, rec, queryVars, iterVars>>

\* the reader yields an Err: `let record = record?` returns it
LoadReadError ==
    /\ pc = "loading"
    /\ nread < MaxRows
    /\ pc' = "failed"
    /\ releases' = <<>>
    /\ err' = Some(ReaderError)
    /\ lastRow' = None
    /\ nread' = nread + 1
    /\ UNCHANGED <<info, rec, queryVars, iterVars>>

\* the reader is exhausted: Ok(Self::from_vec(releases))
LoadEnd ==
    /\ pc = "loading"
    /\ pc' = "loaded"
    /\ info' = Some(from_vec(releases))
    /\ releases' = <<>>
    /\ UNCHANGED <<err, lastRow, nread, rec, queryVars, iterVars>>

NextLoad == LoadRow \/ LoadReadError \/ LoadEnd

SpecLoad == InitLoad /\ [][NextLoad]_vars

\* ---- records and tables with dates in 1..MaxDay -------------------------
\* the strings of the records DistroRelease::new is called with
VersionStr == <<"1">>
CodenameStr == <<"A">>
SeriesStr == <<"a">>

\* DistroRelease::new takes any four optional dates
RecordSet ==
    {DistroRelease_new(VersionStr, CodenameStr, SeriesStr, c, r, e, es) :
        c \in OptDays, r \in OptDays, e \in OptDays, es \in OptDays}

\* the records the loop of from_csv_reader builds from rows of up to six
\* fields (tests::debian_distro_info_item): eol_server is absent, and a date
\* is absent only when the row ends before its column, so the dates behind
\* it are absent too
LoadedRecordSet ==
    {r \in RecordSet : /\ r.created = None => r.release = None
                       /\ r.release = None => r.eol = None
                       /\ r.eol_server = None}

Tables == UNION {[1..n -> LoadedRecordSet] : n \in 0..MaxLen}

\* a table as from_csv_reader returns it, and the date the caller asks its
\* queries about
Init ==
    /\ \E t \in Tables : info = Some(from_vec(t))
    /\ pc = "loaded"
    /\ releases = <<>> /\ err = None /\ lastRow = None /\ nread = 0
    /\ rec = None
    /\ op = "none" /\ date \in Days
    /\ resBool = FALSE /\ resVec = <<>> /\ resOpt = None
    /\ NoIters

\* a record as DistroRelease::new returns it
InitRecord ==
    /\ \E r \in RecordSet : rec = Some(r)
    /\ pc = "record"
    /\ releases = <<>> /\ info = None /\ err = None
    /\ lastRow = None /\ nread = 0
    /\ NoAnswer
    /\ NoIters

\* a query that takes the last record out of the table it was asked about
Answer_taking(name, d, b, v, o) ==
    /\ op' = name /\ date' = d
    /\ resBool' = b /\ resVec' = v /\ resOpt' = o
    /\ info' = IF info # None /\ Len(info[1].releases) > 0
               THEN Some(from_vec(SubSeq(info[1].releases, 1,
                                         Len(info[1].releases) - 1)))
               ELSE info
    /\ UNCHANGED <<pc, releases, err, lastRow, nread, rec, iterVars>>

\* a predicate or query leaves the record and the table alone; the model
\* keeps what it was asked and what it answered
Answer(name, d, b, v, o) ==
    /\ op' = name /\ date' = d
    /\ resBool' = b /\ resVec' = v /\ resOpt' = o
    /\ UNCHANGED <<loadVars, rec, iterVars>>

CreatedAt ==
    /\ pc = "record"
    /\ \E d \in Days : Answer("created_at", d, created_at(rec[1], d), <<>>, None)

ReleasedAt ==
    /\ pc = "record"
    /\ \E d \in Days : Answer("released_at", d, released_at(rec[1], d), <<>>, None)

SupportedAt ==
    /\ pc = "record"
    /\ \E d \in Days : Answer("supported_at", d, supported_at(rec[1], d), <<>>, None)

AllAt ==
    /\ pc = "loaded"
    /\ Answer("all_at", date, FALSE, all_at(info[1], date), None)

Released ==
    /\ pc = "loaded"
    /\ Answer("released", date, FALSE, released(info[1], date), None)

Supported ==
    /\ pc = "loaded"
    /\ Answer("supported", date, FALSE, supported(info[1], date), None)

Unsupported ==
    /\ pc = "loaded"
    /\ Answer("unsupported", date, FALSE, unsupported(info[1], date), None)

Devel ==
    /\ pc = "loaded"
    /\ Answer("devel", date, FALSE, devel(info[1], date), None)

Latest ==
    /\ pc = "loaded"
    /\ Answer("latest", date, FALSE, <<>>, latest(info[1], date))

NextRecord == CreatedAt \/ ReleasedAt \/ SupportedAt

Next == AllAt \/ Released \/ Supported \/ Unsupported \/ Devel \/ Latest

SpecRecord == InitRecord /\ [][NextRecord]_vars

Spec == Init /\ [][Next]_vars

\* ---- iterators over a table ---------------------------------------------
\* self.releases().iter() as the cursor it is: the slice iterator holds its
\* own front and back positions in the vector
slice_iter(self) == [front |-> 1, back |-> Len(self.releases)]

\* Iterator::next on a slice iterator: the reference at the front and the
\* iterator moved past it, or None once the front has passed the back
next(it) ==
    IF it.front > it.back
    THEN [item |-> None, it |-> it]
    ELSE [item |-> Some(it.front), it |-> [it EXCEPT !.front = @ + 1]]

\* every live iterator moved along with iterator k, as if all of them read
\* one cursor kept in the table
advance_shared(its, k) ==
    [j \in DOMAIN its |->
        IF its[j] # None
        THEN Some([its[j][1] EXCEPT !.front = next(its[k][1]).it.front])
        ELSE None]

\* the iterators after iterator k was advanced by next()
advance(its, k) == [its EXCEPT ![k] = Some(next(its[k][1]).it)]

\* the rows of three or four fields make the tables that are iterated
IterRecordSet == {r \in LoadedRecordSet : r.release = None}

IterTables == UNION {[1..n -> IterRecordSet] : n \in 0..MaxLen}

InitIter ==
    /\ \E t \in IterTables : info = Some(from_vec(t))
    /\ pc = "loaded"
    /\ releases = <<>> /\ err = None /\ lastRow = None /\ nread = 0
    /\ rec = None
    /\ NoAnswer
    /\ NoIters

\* `let mut iter_k = info.iter()`: a fresh iterator takes the place of
\* iterator k
IterNew ==
    /\ pc = "loaded"
    /\ \E k \in 1..MaxIters :
         /\ iters' = [iters EXCEPT ![k] = Some(slice_iter(info[1]))]
         /\ yielded' = [yielded EXCEPT ![k] = [items |-> <<>>, ended |-> FALSE]]
    /\ op' = "iter" /\ resOpt' = None
    /\ UNCHANGED <<loadVars, rec, date, resBool, resVec>>

\* `iter_k.next()`
IterNext ==
    /\ pc = "loaded"
    /\ \E k \in 1..MaxIters :
         /\ iters[k] # None
         /\ \E r \in {next(iters[k][1])} :
              /\ iters' = advance(iters, k)
              /\ yielded' = [yielded EXCEPT ![k] =
                               IF r.item = None
                               THEN [@ EXCEPT !.ended = TRUE]
                               ELSE [@ EXCEPT !.items = Append(@, r.item[1])]]
              /\ resOpt' = r.item
    /\ op' = "next"
    /\ UNCHANGED <<loadVars, rec, date, resBool, resVec>>

NextIter == IterNew \/ IterNext

SpecIter == InitIter /\ [][NextIter]_vars

\* the series selector of ubuntu-distro-info: the records whose series is
\* the needle, in table order
series_candidates(self, needle_series) ==
    SelectSeq(iter(self), LAMBDA i : self.releases[i].series = needle_series)

\* ---- properties ---------------------------------------------------------
Rec == rec[1]
Table == info[1].releases
Row == lastRow[1]
Range(v) == {v[k] : k \in 1..Len(v)}

\* C1: supported_at(d) is true iff created is set and d >= created, and eol
\* is set, and d <= max(eol, eol_server) when eol_server is set, d <= eol
\* when it is absent; a record without eol is never supported, and both
\* boundary days count as supported.
C1_SupportedAtIff ==
    op = "supported_at" =>
        /\ resBool = (/\ Rec.created # None /\ date >= Rec.created[1]
                      /\ Rec.eol # None
                      /\ IF Rec.eol_server # None
                         THEN date <= Rec.eol[1] \/ date <= Rec.eol_server[1]
                         ELSE date <= Rec.eol[1])
        /\ Rec.eol = None => ~resBool

\* C1 witness: supported on the day that is both the created day and the
\* governing EOL day, eol being later than eol_server
C1_Witness ==
    /\ op = "supported_at" /\ resBool
    /\ Rec.created = Some(date) /\ Rec.eol = Some(date)
    /\ Rec.eol_server # None /\ Rec.eol_server[1] < date

\* C6, as stated: with eol and eol_server set and eol_server >= eol,
\* supported_at(eol_server) is true.
C6_ExtendedEolDaySupported ==
    (/\ op = "supported_at"
     /\ Rec.eol # None /\ Rec.eol_server # None
     /\ Rec.eol_server[1] >= Rec.eol[1]
     /\ date = Rec.eol_server[1])
    => resBool

\* C6, amended: with eol and eol_server set, eol_server >= eol, and created
\* set and no later than eol_server, supported_at(eol_server) is true.
C6_ExtendedEolDaySupportedOnceCreated ==
    (/\ op = "supported_at"
     /\ Rec.eol # None /\ Rec.eol_server # None
     /\ Rec.eol_server[1] >= Rec.eol[1]
     /\ Rec.created # None /\ Rec.created[1] <= Rec.eol_server[1]
     /\ date = Rec.eol_server[1])
    => resBool

\* C6 witness: supported on an extended end-of-life day that is past eol
C6_Witness ==
    /\ op = "supported_at" /\ resBool
    /\ Rec.eol # None /\ Rec.eol_server # None
    /\ Rec.eol_server[1] > Rec.eol[1]
    /\ date = Rec.eol_server[1]

\* the records of the table that are both released and supported at `date`
Qualifying ==
    {i \in 1..Len(Table) :
        supported_at(Table[i], date) /\ released_at(Table[i], date)}

\* C2: latest(d) is the last record in table order among those both
\* supported and released at d, and is absent exactly when there is none.
C2_LatestIsLastQualifying ==
    op = "latest" =>
        IF Qualifying = {}
        THEN resOpt = None
        ELSE /\ resOpt # None
             /\ resOpt[1] \in Qualifying
             /\ \A j \in Qualifying : j <= resOpt[1]

\* C2 witness: latest answered with two qualifying records to choose from
C2_Witness ==
    /\ op = "latest" /\ resOpt # None
    /\ Cardinality(Qualifying) >= 2

\* C3, as stated: every record supported(d) returns was released at d.
C3_SupportedAreReleased ==
    op = "supported" =>
        \A k \in 1..Len(resVec) : released_at(Table[resVec[k]], date)

\* the references to the records of the table that satisfy P, in table order
InOrder(P(_)) == SelectSeq([i \in 1..Len(Table) |-> i], P)

\* C4: unsupported(d) and supported(d) share no record; unsupported(d)
\* with the released records of supported(d) is released(d); unsupported(d)
\* is exactly the records released and not supported at d.
C4_UnsupportedPartitionsReleased ==
    op = "unsupported" =>
        LET sup == Range(supported(info[1], date))
            rel == Range(released(info[1], date))
        IN  /\ Range(resVec) \cap sup = {}
            /\ Range(resVec) \cup {i \in sup : released_at(Table[i], date)} = rel
            /\ resVec = InOrder(LAMBDA i : /\ released_at(Table[i], date)
                                           /\ ~supported_at(Table[i], date))

\* C4 witness: a date with both unsupported and supported released records
C4_Witness ==
    /\ op = "unsupported" /\ resVec # <<>>
    /\ \E i \in Range(supported(info[1], date)) : released_at(Table[i], date)

\* C5: devel(d) is the records, in table order, with created set,
\* d >= created, release set and d < release; a record without a release
\* date is never in it, and no record is in both devel(d) and released(d).
C5_DevelIsCreatedNotYetReleased ==
    op = "devel" =>
        /\ resVec = InOrder(LAMBDA i : /\ Table[i].created # None
                                       /\ date >= Table[i].created[1]
                                       /\ Table[i].release # None
                                       /\ date < Table[i].release[1])
        /\ \A k \in 1..Len(resVec) : Table[resVec[k]].release # None
        /\ Range(resVec) \cap Range(released(info[1], date)) = {}

\* C5 witness: devel returns a record while the table also holds a created
\* record that has no release date
C5_Witness ==
    /\ op = "devel" /\ resVec # <<>>
    /\ \E i \in 1..Len(Table) :
         /\ Table[i].created # None /\ date >= Table[i].created[1]
         /\ Table[i].release = None

\* the date columns a row has
DateColumns(row) == 4..Min(Len(row), Columns)

\* C7, as stated: an empty date field gives an absent date and the load
\* goes on; only a non-empty field that is no YYYY-MM-DD date fails it.
C7_EmptyDateFieldIsAbsent ==
    (/\ lastRow # None
     /\ Len(Row) >= 3
     /\ \A k \in DateColumns(Row) :
          Row[k] = EmptyText \/ parse_date(Row[k]).ok)
    => /\ pc # "failed"
       /\ pc = "loading" =>
            LET r == releases[Len(releases)]
                dates == <<r.created, r.release, r.eol, r.eol_server>>
            IN  \A k \in DateColumns(Row) :
                  Row[k] = EmptyText => dates[k - 3] = None

\* a row that lacks a required field or holds an unparsable date
RowFaulty(row) ==
    \/ Len(row) < 3
    \/ \E k \in DateColumns(row) : row[k] # EmptyText /\ ~parse_date(row[k]).ok

\* C8: the load is all-or-nothing: a faulty row at any position makes
\* from_csv_reader return an error and no table, and a table is returned
\* only when every row read became a record.
C8_LoadAllOrNothing ==
    /\ (lastRow # None /\ RowFaulty(Row))
         => (pc = "failed" /\ info = None /\ err # None)
    /\ pc = "failed" => (info = None /\ err # None)
    /\ info # None => (pc = "loaded" /\ err = None /\ Len(Table) = nread)

\* C8 witness: the load fails on a faulty second row, the first being valid
C8_Witness ==
    /\ pc = "failed" /\ nread = 2
    /\ lastRow # None /\ RowFaulty(Row)
    /\ info = None

\* C9, as stated: a row whose version, codename or series is present but
\* empty fails the load, so the records of a loaded table have all three
\* non-empty.
C9_RequiredFieldsNonEmpty ==
    /\ (lastRow # None /\ \E k \in 1..Min(3, Len(Row)) : Row[k] = EmptyText)
         => pc = "failed"
    /\ info # None =>
         \A i \in 1..Len(Table) : /\ Table[i].version # EmptyText
                                  /\ Table[i].codename # EmptyText
                                  /\ Table[i].series # EmptyText

\* C9, amended: version, codename and series are required to be present: a
\* row of fewer than three fields fails the load with the required-field
\* error; a field that is present is taken as it is, the empty string
\* included, and never raises that error.
C9_RequiredFieldsPresent ==
    /\ (lastRow # None /\ Len(Row) < 3)
         => (pc = "failed" /\ err = Some(RequiredError))
    /\ (lastRow # None /\ Len(Row) >= 3) => err # Some(RequiredError)
    /\ (lastRow # None /\ pc = "loading") =>
         LET r == releases[Len(releases)]
         IN  r.version = Row[1] /\ r.codename = Row[2] /\ r.series = Row[3]

\* C9 witness: a loaded table with a record whose version is empty
C9_Witness ==
    /\ pc = "loaded" /\ info # None
    /\ \E i \in 1..Len(Table) : Table[i].version = EmptyText

\* C10, as stated: the error of a load that fails on a row without series
\* differs from the error of a load that fails on a row lacking another
\* required field.
C10_ErrorTellsMissingField ==
    (/\ pc = "failed" /\ lastRow # None
     /\ Len(Row) = 2)
    => \A other \in Rows :
         Len(other) < 2 => Some(read_record(other).err) # err

\* C13: released_at(d) is true iff release is set and d >= release, the
\* release day included, and once true it is true at every later date, the
\* dates after eol and eol_server included.
C13_ReleasedAtMonotone ==
    op = "released_at" =>
        /\ resBool = (Rec.release # None /\ date >= Rec.release[1])
        /\ resBool => \A d2 \in Days : d2 >= date => released_at(Rec, d2)

\* C13 witness: released on a day that is past both eol and eol_server
C13_Witness ==
    /\ op = "released_at" /\ resBool
    /\ Rec.eol # None /\ date > Rec.eol[1]
    /\ Rec.eol_server # None /\ date > Rec.eol_server[1]

\* the release dates that are set do not decrease along the table
Chronological ==
    \A i, j \in 1..Len(Table) :
        (i < j /\ Table[i].release # None /\ Table[j].release # None)
            => Table[i].release[1] <= Table[j].release[1]

\* C15: in a table in chronological release order, the record latest(d)
\* returns is released no earlier than any record that is both released and
\* supported at d.
C15_LatestHasLatestRelease ==
    (op = "latest" /\ Chronological /\ resOpt # None) =>
        /\ Table[resOpt[1]].release # None
        /\ \A i \in Qualifying :
             Table[i].release[1] <= Table[resOpt[1]].release[1]

\* C15 witness: latest chooses between two qualifying records of a
\* chronological table that were released on different days
C15_Witness ==
    /\ op = "latest" /\ Chronological /\ resOpt # None
    /\ \E i, j \in Qualifying : Table[i].release[1] < Table[j].release[1]

\* C14, as stated: no two records of a loaded table have the same series,
\* so selecting the records with a given series returns at most one.
C14_SeriesUnique ==
    info # None =>
        /\ \A i, j \in 1..Len(Table) :
             i # j => Table[i].series # Table[j].series
        /\ \A needle \in NameTexts : Len(series_candidates(info[1], needle)) <= 1

\* the references of v are records of the table, in table order
InTableOrder(v, rels) ==
    /\ \A k \in 1..Len(v) : v[k] \in 1..Len(rels)
    /\ \A k \in 1..(Len(v) - 1) : v[k] < v[k + 1]

\* what the query `name` returns for a table and a date
VecOf(name, self, d) ==
    CASE name = "all_at" -> all_at(self, d)
      [] name = "released" -> released(self, d)
      [] name = "supported" -> supported(self, d)
      [] name = "unsupported" -> unsupported(self, d)
      [] name = "devel" -> devel(self, d)
      [] OTHER -> <<>>

C11_IteratorsAreSeparate ==
    \A k \in 1..MaxIters :
        iters[k] # None =>
            LET all == [i \in 1..Len(Table) |-> i]
                got == yielded[k].items
            IN  /\ Len(got) <= Len(all)
                /\ got = SubSeq(all, 1, Len(got))
                /\ iters[k][1].front = Len(got) + 1
                /\ yielded[k].ended => got = all

\* C11 witness: one iterator has yielded the whole table and ended while
\* another, over the same table, has yielded the first record only
C11_Witness ==
    /\ Len(Table) >= 2
    /\ \E k, j \in 1..MaxIters :
         /\ iters[k] # None /\ iters[j] # None
         /\ yielded[k].ended /\ Len(yielded[k].items) = Len(Table)
         /\ yielded[j].items = <<1>>
====
